---- MODULE Spec2Model ----
(***************************************************************************)
(* Per-layer filtering (layer_filters.rs) and layer composition            *)
(* (layered.rs) of tracing-subscriber.                                     *)
(*                                                                         *)
(* A subscriber is a tree of Layered nodes whose leaves are Filtered       *)
(* layers, plain layers and, at the bottom, the terminal registry.  Every  *)
(* producer thread owns one FilterState (the FILTERING thread-local).  The *)
(* producer registers callsites, runs `enabled` passes and dispatches      *)
(* events and spans.  The counters of FilterState exist only in builds     *)
(* with debug_assertions; there a failing debug assertion is recorded in   *)
(* `debug_assert_failed`.                                                  *)
(***************************************************************************)
EXTENDS Integers, Sequences, FiniteSets, TLC

VARIABLES
    sub,        \* the assembled subscriber (a tree), fixed after construction
    threads,    \* the producer threads
    filtering,  \* FILTERING: thread -> FilterState
    cache,      \* the producer's callsite cache: metadata -> cached Interest
    pending,    \* thread -> the span/event whose `enabled` pass just returned true
    spans,      \* the registry's span table: span id -> stored span data
    last,       \* what the last operation did (its result and the calls it made)
    pure        \* inputs and result of a direct call of a pure helper

vars == <<sub, threads, filtering, cache, pending, spans, last, pure>>

(*************************** bounds ****************************************)
NumLevels == 3      \* verbosity levels 1 (least verbose) .. NumLevels
MaxSpans == 2       \* span ids the registry hands out
MaxAdds == 4        \* add_interest calls between two take_interest calls
MaxCounter == 3     \* cap of the debug pass counters

(*************************** program constants *****************************)
FilterBits == 64        \* width of FilterMap.bits; FilterId::new asserts id < 64
Unregistered == 255     \* FilterId of a Filtered that was never attached

\* a FilterId::new whose assertion admits one id more
FilterId_new_off_by_one(id) == [ok |-> id <= FilterBits, id |-> id]

\* FilterId::new: assert!(id < 64); `ok` is FALSE when the assertion panics
FilterId_new(id) == [ok |-> id < FilterBits, id |-> id]

Levels == 1..NumLevels
Metadata == Levels              \* a callsite is identified by its level
SpanIds == 1..MaxSpans
ALWAYS == "always"
SOMETIMES == "sometimes"
NEVER == "never"
Interests == {ALWAYS, SOMETIMES, NEVER}
NoInterest == "none"            \* Option<Interest>::None
NoHint == <<>>                  \* Option<LevelFilter>::None
SomeHint(l) == <<l>>            \* Option<LevelFilter>::Some(l)
LevelFilters == 0..NumLevels    \* LevelFilter::OFF is 0
Hints == {NoHint} \cup {SomeHint(l) : l \in LevelFilters}
NoSpan == [live |-> FALSE, meta |-> 0, filter_map |-> {}, pass |-> FALSE]
NoPending == 0                  \* no dispatch is owed by the thread

(*************************** FilterMap *************************************)
FilterMap_default == {}         \* bits: 0, kept as the set of the bits set

\* a FilterMap::set with the two branches exchanged
FilterMap_set_inverted(self, idx, enabled) ==
    IF idx >= FilterBits THEN self
    ELSE IF enabled THEN self \cup {idx}
    ELSE self \ {idx}

\* a FilterMap::set that also writes ids that are not bits of the map
FilterMap_set_unguarded(self, idx, enabled) ==
    IF enabled THEN self \ {idx} ELSE self \cup {idx}

FilterMap_set(self, idx, enabled) ==
    IF idx >= FilterBits THEN self
    ELSE IF enabled THEN self \ {idx}
    ELSE self \cup {idx}

FilterMap_is_enabled(self, idx) ==
    IF idx >= FilterBits THEN FALSE
    ELSE idx \notin self

FilterMap_any_enabled(self) == self # 0..(FilterBits - 1)

FilterMap_all_disabled(self) == self = 0..(FilterBits - 1)

\* debug_assert!(idx < 64 || idx == 255) of FilterMap::set / is_enabled
FilterMap_idx_ok(idx) == idx < FilterBits \/ idx = Unregistered

(*************************** FilterState ***********************************)
\* FilterState::new; debug_assertions is the build's cfg(debug_assertions)
FilterState_new(debug_assertions) ==
    [enabled |-> FilterMap_default,
     interest |-> NoInterest,
     debug_assertions |-> debug_assertions,
     in_current_filter_pass |-> 0,
     in_current_interest_pass |-> 0,
     debug_assert_failed |-> FALSE]

FilterState_set(this, filter, enabled) ==
    LET in_current_pass == this.in_current_filter_pass
        bad == \/ in_current_pass = 0 /\ this.enabled # FilterMap_default
               \/ this.in_current_interest_pass # 0
               \/ ~FilterMap_idx_ok(filter)
    IN  [this EXCEPT
            !.in_current_filter_pass =
                IF this.debug_assertions THEN in_current_pass + 1 ELSE @,
            !.enabled = FilterMap_set(this.enabled, filter, enabled),
            !.debug_assert_failed = @ \/ (this.debug_assertions /\ bad)]

\* an add_interest that stores the interest it is given
FilterState_add_interest_last_wins(this, interest) ==
    [this EXCEPT
        !.in_current_interest_pass =
            IF this.debug_assertions THEN @ + 1 ELSE @,
        !.interest = interest]

FilterState_add_interest(this, interest) ==
    LET in_current_pass == this.in_current_interest_pass
        curr_interest == this.interest
        bad == in_current_pass = 0 /\ curr_interest # NoInterest
        new == IF curr_interest # NoInterest
               THEN IF \/ curr_interest = ALWAYS /\ interest # ALWAYS
                       \/ curr_interest = NEVER /\ interest # NEVER
                    THEN SOMETIMES
                    ELSE curr_interest
               ELSE interest
    IN  [this EXCEPT
            !.in_current_interest_pass =
                IF this.debug_assertions THEN in_current_pass + 1 ELSE @,
            !.interest = new,
            !.debug_assert_failed = @ \/ (this.debug_assertions /\ bad)]

\* returns the verdict and the state left behind
FilterState_event_enabled(this) ==
    LET enabled == FilterMap_any_enabled(this.enabled)
        bad == this.in_current_filter_pass = 0 /\ this.enabled # FilterMap_default
    IN  [ret |-> enabled,
         st |-> [this EXCEPT
                    !.in_current_filter_pass = IF enabled THEN @ ELSE 0,
                    !.debug_assert_failed = @ \/ (this.debug_assertions /\ bad)]]

\* `called`: whether the closure f was invoked
\* a did_enable that inspects the bit and leaves it as it is
FilterState_did_enable_without_reset(this, filter) ==
    [called |-> FilterMap_is_enabled(this.enabled, filter),
     st |-> [this EXCEPT
                !.in_current_filter_pass = IF @ = 0 THEN 0 ELSE @ - 1]]

FilterState_did_enable(this, filter) ==
    LET map == this.enabled
        called == FilterMap_is_enabled(map, filter)
        after == IF called THEN map ELSE FilterMap_set(map, filter, TRUE)
        in_current_pass == this.in_current_filter_pass
        bad == \/ in_current_pass <= 1 /\ after # FilterMap_default
               \/ this.in_current_interest_pass # 0
               \/ ~FilterMap_idx_ok(filter)
    IN  [called |-> called,
         st |-> [this EXCEPT
                    !.enabled = after,
                    !.in_current_filter_pass =
                        IF in_current_pass = 0 THEN 0 ELSE in_current_pass - 1,
                    !.debug_assert_failed = @ \/ (this.debug_assertions /\ bad)]]

\* a take_interest that reads the cell and leaves it as it is
FilterState_take_interest_without_reset(this) ==
    [ret |-> this.interest,
     st |-> [this EXCEPT !.in_current_interest_pass = 0]]

FilterState_take_interest(this) ==
    LET bad == this.in_current_interest_pass = 0 /\ this.interest # NoInterest
    IN  [ret |-> this.interest,
         st |-> [this EXCEPT
                    !.in_current_interest_pass = 0,
                    !.interest = NoInterest,
                    !.debug_assert_failed = @ \/ (this.debug_assertions /\ bad)]]

FilterState_filter_map(this) ==
    LET map == this.enabled
        bad == this.in_current_filter_pass = 0 /\ map # FilterMap_default
    IN  [ret |-> map,
         st |-> [this EXCEPT
                    !.debug_assert_failed = @ \/ (this.debug_assertions /\ bad)]]

(*************************** filters ***************************************)
\* impl Filter for LevelFilter
LevelFilter_enabled(self, meta) == meta <= self.level

LevelFilter_callsite_enabled(self, meta) ==
    IF meta <= self.level THEN ALWAYS ELSE NEVER

LevelFilter_max_level_hint(self) == SomeHint(self.level)

\* FilterFn: `enabled` is the set of metadata the closure accepts,
\* `register_callsite` is <<>> (None) or <<r>> with r: Metadata -> Interest
FilterFn_is_below_max_level(self, metadata) ==
    IF self.max_level_hint = NoHint THEN TRUE
    ELSE metadata <= self.max_level_hint[1]

FilterFn_default_callsite_enabled(self, metadata) ==
    IF metadata \in self.enabled THEN ALWAYS ELSE NEVER

FilterFn_enabled(self, metadata) == metadata \in self.enabled

FilterFn_callsite_enabled(self, metadata) ==
    IF self.register_callsite # <<>>
    THEN self.register_callsite[1][metadata]
    ELSE FilterFn_default_callsite_enabled(self, metadata)

FilterFn_max_level_hint(self) == self.max_level_hint

\* the debug_assert! of FilterFn::enabled and of FilterFn::callsite_enabled:
\* TRUE when the assertion holds
FilterFn_enabled_debug_assert(self, metadata) ==
    ~FilterFn_enabled(self, metadata)
        \/ FilterFn_is_below_max_level(self, metadata)

FilterFn_callsite_enabled_debug_assert(self, metadata) ==
    FilterFn_callsite_enabled(self, metadata) = NEVER
        \/ FilterFn_is_below_max_level(self, metadata)

\* dynamic dispatch on the filter type F of a Filtered<L, F, S>
Filter_enabled(f, meta) ==
    IF f.kind = "LevelFilter" THEN LevelFilter_enabled(f, meta)
    ELSE FilterFn_enabled(f, meta)

Filter_callsite_enabled(f, meta) ==
    IF f.kind = "LevelFilter" THEN LevelFilter_callsite_enabled(f, meta)
    ELSE FilterFn_callsite_enabled(f, meta)

Filter_max_level_hint(f) ==
    IF f.kind = "LevelFilter" THEN LevelFilter_max_level_hint(f)
    ELSE FilterFn_max_level_hint(f)

LevelFilter(l) == [kind |-> "LevelFilter", level |-> l]

\* filter_fn(f) / FilterFn::new, with_callsite_filter, with_max_level_hint
FilterFn_new(enabled) ==
    [kind |-> "FilterFn", enabled |-> enabled, register_callsite |-> <<>>,
     max_level_hint |-> NoHint]

FilterFn_with_callsite_filter(self, callsite_enabled) ==
    [self EXCEPT !.register_callsite = <<callsite_enabled>>]

FilterFn_with_max_level_hint(self, max_level_hint) ==
    [self EXCEPT !.max_level_hint = SomeHint(max_level_hint)]

(*************************** the nodes of a subscriber *********************)
\* The terminal registry; next_filter_id counts the FilterIds handed out.
Registry_new == [kind |-> "Registry", next_filter_id |-> 0]

\* A layer without a per-layer filter: `interest` is what its
\* register_callsite returns, `enabled` the metadata its `enabled` accepts.
Plain(k, interest, enabled, hint) ==
    [kind |-> "Plain", k |-> k, interest |-> interest, enabled |-> enabled,
     hint |-> hint]

\* Filtered::new; the wrapped layer is the recording layer number k
Filtered_new(k, filter) ==
    [kind |-> "Filtered", k |-> k, filter |-> filter, id |-> Unregistered]

\* Option<L> used as a layer: Option::None and Option::Some(layer)
OptionNone == [kind |-> "Option", some |-> <<>>]

OptionSome(layer) == [kind |-> "Option", some |-> <<layer>>]

IsSubscriber(node) ==
    \/ node.kind = "Registry"
    \/ node.kind = "Layered" /\ node.impl = "Subscriber"

\* downcast_raw(TypeId::of::<MagicPlfDowncastMarker>()).is_some() of a
\* Filtered: the marker is its id field
Filtered_downcast_raw_plf(self) == TRUE

\* of an Option<L>: self.as_ref().and_then(|inner| inner.downcast_raw(id));
\* `inner` is the answer of the wrapped layer when there is one
Option_downcast_raw_plf(self, inner) == self.some # <<>> /\ inner

\* of a Layered that is a Subscriber: layer.downcast_raw(id).or_else(inner)
Layered_Subscriber_downcast_raw_plf(layer, inner) == layer \/ inner

\* of a Layered that is a Layer: layer.downcast_raw(id).and(inner)
Layered_Layer_downcast_raw_plf(layer, inner) == layer /\ inner

\* downcast_raw(TypeId::of::<MagicPlfDowncastMarker>()).is_some() of a tree;
\* plain layers and the registry do not know the marker
RECURSIVE downcast_raw_plf(_)
downcast_raw_plf(node) ==
    CASE node.kind = "Filtered" -> Filtered_downcast_raw_plf(node)
      [] node.kind = "Option" ->
            Option_downcast_raw_plf(
                node, node.some # <<>> /\ downcast_raw_plf(node.some[1]))
      [] node.kind = "Layered" ->
            IF node.impl = "Subscriber"
            THEN Layered_Subscriber_downcast_raw_plf(
                     downcast_raw_plf(node.layer), downcast_raw_plf(node.inner))
            ELSE Layered_Layer_downcast_raw_plf(
                     downcast_raw_plf(node.layer), downcast_raw_plf(node.inner))
      [] OTHER -> FALSE

subscriber_has_plf(subscriber) == downcast_raw_plf(subscriber)

layer_has_plf(layer) == downcast_raw_plf(layer)

\* Layered::new; S is the subscriber type parameter of Layered<A, B, S>
\* ("Registry" when the layers end up directly on the registry)
Layered_new(layer, inner, inner_has_layer_filter, S) ==
    LET inner_is_registry == S = "Registry"
    IN  [kind |-> "Layered",
         impl |-> IF IsSubscriber(inner) THEN "Subscriber" ELSE "Layer",
         layer |-> layer,
         inner |-> inner,
         has_layer_filter |-> layer_has_plf(layer),
         inner_has_layer_filter |-> inner_has_layer_filter \/ inner_is_registry,
         inner_is_registry |-> inner_is_registry]

(*************************** interest and level hints **********************)
\* a pick_interest without the rule for an outer per-layer filter
pick_interest_without_plf_rule(self, outer, inner) ==
    IF outer = NEVER THEN [ret |-> outer, inner_called |-> FALSE]
    ELSE IF outer = SOMETIMES THEN [ret |-> outer, inner_called |-> TRUE]
    ELSE IF inner = NEVER /\ self.inner_has_layer_filter
    THEN [ret |-> SOMETIMES, inner_called |-> TRUE]
    ELSE [ret |-> inner, inner_called |-> TRUE]

\* a pick_interest that returns the outer's `sometimes` without asking the inner
pick_interest_short_circuit(self, outer, inner) ==
    IF self.has_layer_filter THEN [ret |-> inner, inner_called |-> TRUE]
    ELSE IF outer = NEVER THEN [ret |-> outer, inner_called |-> FALSE]
    ELSE IF outer = SOMETIMES THEN [ret |-> outer, inner_called |-> FALSE]
    ELSE IF inner = NEVER /\ self.inner_has_layer_filter
    THEN [ret |-> SOMETIMES, inner_called |-> TRUE]
    ELSE [ret |-> inner, inner_called |-> TRUE]

\* Layered::pick_interest; `inner` is the value the closure returns when it
\* is invoked, `inner_called` tells whether it was
pick_interest(self, outer, inner) ==
    IF self.has_layer_filter THEN [ret |-> inner, inner_called |-> TRUE]
    ELSE IF outer = NEVER THEN [ret |-> outer, inner_called |-> FALSE]
    ELSE IF outer = SOMETIMES THEN [ret |-> outer, inner_called |-> TRUE]
    ELSE IF inner = NEVER /\ outer # NEVER /\ self.inner_has_layer_filter
    THEN [ret |-> SOMETIMES, inner_called |-> TRUE]
    ELSE [ret |-> inner, inner_called |-> TRUE]

\* a combination of two hints that keeps the least verbose one
OptionMin(a, b) ==
    IF a = NoHint THEN b
    ELSE IF b = NoHint THEN a
    ELSE IF b[1] >= a[1] THEN a ELSE b

\* std::cmp::max on Option<LevelFilter>: None orders below every Some
OptionMax(a, b) ==
    IF a = NoHint THEN b
    ELSE IF b = NoHint THEN a
    ELSE IF b[1] >= a[1] THEN b ELSE a

\* a pick_level_hint without the rule for the registry
pick_level_hint_without_registry_rule(self, outer_hint, inner_hint) ==
    IF self.has_layer_filter /\ self.inner_has_layer_filter
    THEN IF outer_hint = NoHint \/ inner_hint = NoHint THEN NoHint
         ELSE OptionMax(outer_hint, inner_hint)
    ELSE IF self.has_layer_filter /\ inner_hint = NoHint THEN NoHint
    ELSE IF self.inner_has_layer_filter /\ outer_hint = NoHint THEN NoHint
    ELSE OptionMax(outer_hint, inner_hint)

\* a pick_level_hint without the three rules for per-layer filters
pick_level_hint_without_plf_rules(self, outer_hint, inner_hint) ==
    IF self.inner_is_registry THEN outer_hint
    ELSE OptionMax(outer_hint, inner_hint)

\* Layered::pick_level_hint
pick_level_hint(self, outer_hint, inner_hint) ==
    IF self.inner_is_registry THEN outer_hint
    ELSE IF self.has_layer_filter /\ self.inner_has_layer_filter
    THEN IF outer_hint = NoHint \/ inner_hint = NoHint THEN NoHint
         ELSE SomeHint(IF inner_hint[1] >= outer_hint[1]
                       THEN inner_hint[1] ELSE outer_hint[1])
    ELSE IF self.has_layer_filter /\ inner_hint = NoHint THEN NoHint
    ELSE IF self.inner_has_layer_filter /\ outer_hint = NoHint THEN NoHint
    ELSE OptionMax(outer_hint, inner_hint)

(*************************** assembling a subscriber ***********************)
\* LookupSpan::register_filter of the registry: FilterId::new(next id);
\* `panicked` when the assertion of FilterId::new fails
Registry_register_filter(self) ==
    LET id == FilterId_new(self.next_filter_id)
    IN  [id |-> id.id,
         panicked |-> ~id.ok,
         sub |-> IF id.ok THEN [self EXCEPT !.next_filter_id = @ + 1] ELSE self]

\* LookupSpan::register_filter of a Layered: ask the inner subscriber
RECURSIVE register_filter(_)
register_filter(subscriber) ==
    IF subscriber.kind = "Registry" THEN Registry_register_filter(subscriber)
    ELSE LET r == register_filter(subscriber.inner)
         IN  [id |-> r.id,
              panicked |-> r.panicked,
              sub |-> [subscriber EXCEPT !.inner = r.sub]]

\* Filtered::on_register: store the id the subscriber hands out (the
\* wrapped layer's on_register does nothing)
Filtered_on_register(self, subscriber) ==
    LET r == register_filter(subscriber)
    IN  [layer |-> IF r.panicked THEN self ELSE [self EXCEPT !.id = r.id],
         sub |-> r.sub,
         panicked |-> r.panicked]

\* Layer::on_register, the hook invoked when a layer is attached to a
\* subscriber: of the layers here only Filtered defines it, every other one
\* (Layered and Option included) has the default, which does nothing
on_register(layer, subscriber) ==
    IF layer.kind = "Filtered" THEN Filtered_on_register(layer, subscriber)
    ELSE [layer |-> layer, sub |-> subscriber, panicked |-> FALSE]

\* Layer::on_layer: Layered passes it to its outer branch, then to its
\* inner branch; Option passes it to the layer it holds; Filtered and
\* plain layers do not define it and have the default, which does nothing
RECURSIVE on_layer(_, _)
on_layer(layer, subscriber) ==
    CASE layer.kind = "Layered" ->
            LET o == on_layer(layer.layer, subscriber)
                i == on_layer(layer.inner, o.sub)
            IN  [layer |-> [layer EXCEPT !.layer = o.layer, !.inner = i.layer],
                 sub |-> i.sub,
                 panicked |-> o.panicked \/ i.panicked]
      [] layer.kind = "Option" /\ layer.some # <<>> ->
            LET r == on_layer(layer.some[1], subscriber)
            IN  [layer |-> [layer EXCEPT !.some = <<r.layer>>],
                 sub |-> r.sub,
                 panicked |-> r.panicked]
      [] OTHER -> [layer |-> layer, sub |-> subscriber, panicked |-> FALSE]

\* Layer::with_subscriber: `inner.with(layer)`
with_subscriber(layer, inner) ==
    LET inner_has_layer_filter == subscriber_has_plf(inner)
        r == on_register(layer, inner)
    IN  Layered_new(r.layer, r.sub, inner_has_layer_filter,
                    IF inner.kind = "Registry" THEN "Registry" ELSE "Layered")

\* with_subscriber panics when the registry cannot hand out another id
with_subscriber_panics(layer, inner) == on_register(layer, inner).panicked

\* Layer::and_then: `self.and_then(layer)` puts `layer` on top of `self`
and_then(self, layer, S) == Layered_new(layer, self, layer_has_plf(self), S)

\* the leaves of a tree
RECURSIVE Leaves(_)
Leaves(node) ==
    IF node.kind = "Layered" THEN Leaves(node.layer) \cup Leaves(node.inner)
    ELSE IF node.kind = "Option" /\ node.some # <<>> THEN Leaves(node.some[1])
    ELSE {node}

FilteredLeaves(node) == {n \in Leaves(node) : n.kind = "Filtered"}

RECURSIVE LayeredNodes(_)
LayeredNodes(node) ==
    IF node.kind = "Layered"
    THEN {node} \cup LayeredNodes(node.layer) \cup LayeredNodes(node.inner)
    ELSE {}

(*************************** callbacks of the leaves ***********************)
Call(kind, k, cb, arg) == <<kind, k, cb, arg>>

\* Context::if_enabled_for / is_enabled_for: the span's stored FilterMap
Context_is_enabled_for(table, span, filter) ==
    table[span].live /\ FilterMap_is_enabled(table[span].filter_map, filter)

Filtered_register_callsite(self, metadata, st) ==
    LET interest == Filter_callsite_enabled(self.filter, metadata)
    IN  [ret |-> ALWAYS,
         st |-> FilterState_add_interest(st, interest),
         calls |-> <<Call("filtered", self.k, "register_callsite", metadata)>>]

\* a Filtered::enabled that returns its filter's verdict
Filtered_enabled_short_circuit(self, metadata, st) ==
    LET enabled == Filter_enabled(self.filter, metadata)
    IN  [ret |-> enabled,
         st |-> FilterState_set(st, self.id, enabled),
         calls |-> <<Call("filtered", self.k, "enabled", metadata)>>]

Filtered_enabled(self, metadata, st) ==
    LET enabled == Filter_enabled(self.filter, metadata)
    IN  [ret |-> TRUE,
         st |-> FilterState_set(st, self.id, enabled),
         calls |-> <<Call("filtered", self.k, "enabled", metadata)>>]

Filtered_did_enable(self, st) == FilterState_did_enable(st, self.id)

Filtered_new_span(self, attrs, id, st) ==
    LET d == Filtered_did_enable(self, st)
    IN  [st |-> d.st,
         calls |-> IF d.called THEN <<Call("layer", self.k, "new_span", id)>>
                   ELSE <<>>]

Filtered_on_event(self, event, st) ==
    LET d == Filtered_did_enable(self, st)
    IN  [st |-> d.st,
         calls |-> IF d.called THEN <<Call("layer", self.k, "on_event", event)>>
                   ELSE <<>>]

Filtered_max_level_hint(self) == Filter_max_level_hint(self.filter)

Filtered_on_record(self, span, table) ==
    IF Context_is_enabled_for(table, span, self.id)
    THEN <<Call("layer", self.k, "on_record", span)>> ELSE <<>>

\* an on_follows_from that looks at the subject span only
Filtered_on_follows_from_subject_only(self, span, follows, table) ==
    IF Context_is_enabled_for(table, span, self.id)
    THEN <<Call("layer", self.k, "on_follows_from", span)>> ELSE <<>>

Filtered_on_follows_from(self, span, follows, table) ==
    IF /\ Context_is_enabled_for(table, span, self.id)
       /\ Context_is_enabled_for(table, follows, self.id)
    THEN <<Call("layer", self.k, "on_follows_from", span)>> ELSE <<>>

\* an on_enter that does not look at the span's stored FilterMap
Filtered_on_enter_unfiltered(self, id, table) ==
    <<Call("layer", self.k, "on_enter", id)>>

Filtered_on_enter(self, id, table) ==
    IF Context_is_enabled_for(table, id, self.id)
    THEN <<Call("layer", self.k, "on_enter", id)>> ELSE <<>>

Filtered_on_exit(self, id, table) ==
    IF Context_is_enabled_for(table, id, self.id)
    THEN <<Call("layer", self.k, "on_exit", id)>> ELSE <<>>

Filtered_on_close(self, id, table) ==
    IF Context_is_enabled_for(table, id, self.id)
    THEN <<Call("layer", self.k, "on_close", id)>> ELSE <<>>

Filtered_on_id_change(self, old, new, table) ==
    IF Context_is_enabled_for(table, old, self.id)
    THEN <<Call("layer", self.k, "on_id_change", old)>> ELSE <<>>

\* a layer without a per-layer filter records every callback it receives
Plain_register_callsite(self, metadata, st) ==
    [ret |-> self.interest[metadata], st |-> st,
     calls |-> <<Call("layer", self.k, "register_callsite", metadata)>>]

Plain_enabled(self, metadata, st) ==
    [ret |-> metadata \in self.enabled, st |-> st,
     calls |-> <<Call("layer", self.k, "enabled", metadata)>>]

Plain_callback(self, cb, arg) == <<Call("layer", self.k, cb, arg)>>

\* impl Layer for Option<L>; `inner` is the outcome of the layer it holds
Option_register_callsite(self, inner, st) ==
    IF self.some # <<>> THEN inner
    ELSE [ret |-> ALWAYS, st |-> st, calls |-> <<>>]

Option_enabled(self, inner, st) ==
    IF self.some # <<>> THEN inner
    ELSE [ret |-> TRUE, st |-> st, calls |-> <<>>]

Option_max_level_hint(self, inner) ==
    IF self.some # <<>> THEN inner ELSE NoHint

\* new_span, on_record, on_follows_from, on_event, on_enter, on_exit,
\* on_close and on_id_change of an Option<L>
Option_inform(self, inner, st) ==
    IF self.some # <<>> THEN inner
    ELSE [st |-> st, data |-> NoSpan, calls |-> <<>>]

\* the terminal registry
Registry_has_per_layer_filters(self) == self.next_filter_id > 0

Registry_register_callsite(self, metadata, st) ==
    IF Registry_has_per_layer_filters(self)
    THEN LET t == FilterState_take_interest(st)
         IN  [ret |-> IF t.ret = NoInterest THEN ALWAYS ELSE t.ret,
              st |-> t.st,
              calls |-> <<Call("registry", 0, "register_callsite", metadata)>>]
    ELSE [ret |-> ALWAYS, st |-> st,
          calls |-> <<Call("registry", 0, "register_callsite", metadata)>>]

Registry_enabled(self, metadata, st) ==
    IF Registry_has_per_layer_filters(self)
    THEN LET e == FilterState_event_enabled(st)
         IN  [ret |-> e.ret, st |-> e.st,
              calls |-> <<Call("registry", 0, "enabled", metadata)>>]
    ELSE [ret |-> TRUE, st |-> st,
          calls |-> <<Call("registry", 0, "enabled", metadata)>>]

\* Registry::new_span stores FilterState::filter_map() with the span
Registry_new_span(self, attrs, id, st) ==
    LET fm == FilterState_filter_map(st)
    IN  [st |-> fm.st,
         calls |-> <<Call("registry", 0, "new_span", id)>>,
         data |-> [live |-> TRUE, meta |-> attrs, filter_map |-> fm.ret,
                   pass |-> FALSE]]

Registry_callback(self, cb, arg) == <<Call("registry", 0, cb, arg)>>

(*************************** Layered ***************************************)
\* impl Subscriber for Layered: register_callsite.  o is the outcome of
\* self.layer.register_callsite, i that of the closure when it is invoked.
Layered_Subscriber_register_callsite(self, o, i) ==
    LET p == pick_interest(self, o.ret, i.ret)
    IN  [ret |-> p.ret,
         st |-> IF p.inner_called THEN i.st ELSE o.st,
         calls |-> IF p.inner_called THEN o.calls \o i.calls ELSE o.calls]

\* impl Layer for Layered: register_callsite
Layered_Layer_register_callsite(self, o, i) ==
    LET p == pick_interest(self, o.ret, i.ret)
    IN  [ret |-> p.ret,
         st |-> IF p.inner_called THEN i.st ELSE o.st,
         calls |-> IF p.inner_called THEN o.calls \o i.calls ELSE o.calls]

\* a Layered::enabled that asks the inner collaborator whatever the outer
\* layer answered
Layered_enabled_without_short_circuit(self, o, i) ==
    [ret |-> o.ret /\ i.ret, st |-> i.st, calls |-> o.calls \o i.calls]

\* impl Subscriber for Layered: enabled.  i is the outcome of
\* self.inner.enabled, asked only when the outer layer returned true.
Layered_Subscriber_enabled(self, o, i) ==
    IF o.ret
    THEN [ret |-> i.ret, st |-> i.st, calls |-> o.calls \o i.calls]
    ELSE [ret |-> FALSE, st |-> o.st, calls |-> o.calls]

\* impl Layer for Layered: enabled
Layered_Layer_enabled(self, o, i) ==
    IF o.ret
    THEN [ret |-> i.ret, st |-> i.st, calls |-> o.calls \o i.calls]
    ELSE [ret |-> FALSE, st |-> o.st, calls |-> o.calls]

\* impl Subscriber for Layered: max_level_hint
Layered_Subscriber_max_level_hint(self, outer_hint, inner_hint) ==
    pick_level_hint(self, outer_hint, inner_hint)

\* impl Layer for Layered: max_level_hint
Layered_Layer_max_level_hint(self, outer_hint, inner_hint) ==
    pick_level_hint(self, outer_hint, inner_hint)

\* the order in which a Layered passes an informational callback to its
\* two branches: first element first
Layered_order_outer_first(cb) == <<"layer", "inner">>

\* a Layered whose new_span tells its outer layer before the inner
\* subscriber has made the span
Layered_new_span_outer_first(cb) ==
    IF cb = "new_span" THEN <<"layer", "inner">> ELSE <<"inner", "layer">>

Layered_Subscriber_order(cb) == <<"inner", "layer">>

Layered_Layer_order(cb) == <<"inner", "layer">>

Layered_order(self, cb) ==
    IF self.impl = "Subscriber" THEN Layered_Subscriber_order(cb)
    ELSE Layered_Layer_order(cb)

(*************************** walking the tree ******************************)
RECURSIVE RegisterCallsiteOp(_, _, _)
RegisterCallsiteOp(node, metadata, st) ==
    CASE node.kind = "Filtered" -> Filtered_register_callsite(node, metadata, st)
      [] node.kind = "Plain" -> Plain_register_callsite(node, metadata, st)
      [] node.kind = "Registry" -> Registry_register_callsite(node, metadata, st)
      [] node.kind = "Option" ->
            Option_register_callsite(
                node,
                IF node.some # <<>>
                THEN RegisterCallsiteOp(node.some[1], metadata, st)
                ELSE [ret |-> ALWAYS, st |-> st, calls |-> <<>>],
                st)
      [] node.kind = "Layered" ->
            LET o == RegisterCallsiteOp(node.layer, metadata, st)
                i == RegisterCallsiteOp(node.inner, metadata, o.st)
            IN  IF node.impl = "Subscriber"
                THEN Layered_Subscriber_register_callsite(node, o, i)
                ELSE Layered_Layer_register_callsite(node, o, i)

RECURSIVE EnabledOp(_, _, _)
EnabledOp(node, metadata, st) ==
    CASE node.kind = "Filtered" -> Filtered_enabled(node, metadata, st)
      [] node.kind = "Plain" -> Plain_enabled(node, metadata, st)
      [] node.kind = "Registry" -> Registry_enabled(node, metadata, st)
      [] node.kind = "Option" ->
            Option_enabled(
                node,
                IF node.some # <<>> THEN EnabledOp(node.some[1], metadata, st)
                ELSE [ret |-> TRUE, st |-> st, calls |-> <<>>],
                st)
      [] node.kind = "Layered" ->
            LET o == EnabledOp(node.layer, metadata, st)
                i == EnabledOp(node.inner, metadata, o.st)
            IN  IF node.impl = "Subscriber"
                THEN Layered_Subscriber_enabled(node, o, i)
                ELSE Layered_Layer_enabled(node, o, i)

\* one informational callback at a leaf; a is the metadata (new_span,
\* on_event) or the span, b the new span's id, `follows` or the new id
Filtered_inform(node, cb, a, b, st, table) ==
    CASE cb = "new_span" ->
            LET r == Filtered_new_span(node, a, b, st)
            IN  [st |-> r.st, data |-> NoSpan, calls |-> r.calls]
      [] cb = "on_event" ->
            LET r == Filtered_on_event(node, a, st)
            IN  [st |-> r.st, data |-> NoSpan, calls |-> r.calls]
      [] cb = "on_record" ->
            [st |-> st, data |-> NoSpan,
             calls |-> Filtered_on_record(node, a, table)]
      [] cb = "on_follows_from" ->
            [st |-> st, data |-> NoSpan,
             calls |-> Filtered_on_follows_from(node, a, b, table)]
      [] cb = "on_enter" ->
            [st |-> st, data |-> NoSpan,
             calls |-> Filtered_on_enter(node, a, table)]
      [] cb = "on_exit" ->
            [st |-> st, data |-> NoSpan,
             calls |-> Filtered_on_exit(node, a, table)]
      [] cb = "on_close" ->
            [st |-> st, data |-> NoSpan,
             calls |-> Filtered_on_close(node, a, table)]
      [] cb = "on_id_change" ->
            [st |-> st, data |-> NoSpan,
             calls |-> Filtered_on_id_change(node, a, b, table)]

Leaf_inform(node, cb, a, b, st, table) ==
    CASE node.kind = "Filtered" -> Filtered_inform(node, cb, a, b, st, table)
      [] node.kind = "Plain" ->
            [st |-> st, data |-> NoSpan,
             calls |-> Plain_callback(node, cb, IF cb = "new_span" THEN b ELSE a)]
      [] node.kind = "Registry" ->
            IF cb = "new_span" THEN Registry_new_span(node, a, b, st)
            ELSE [st |-> st, data |-> NoSpan,
                  calls |-> Registry_callback(node, cb, a)]

RECURSIVE InformOp(_, _, _, _, _, _)
InformOp(node, cb, a, b, st, table) ==
    IF node.kind = "Layered"
    THEN LET order == Layered_order(node, cb)
             first == InformOp(node[order[1]], cb, a, b, st, table)
             second == InformOp(node[order[2]], cb, a, b, first.st, table)
         IN  [st |-> second.st,
              calls |-> first.calls \o second.calls,
              data |-> IF first.data.live THEN first.data ELSE second.data]
    ELSE IF node.kind = "Option"
    THEN Option_inform(
             node,
             IF node.some # <<>> THEN InformOp(node.some[1], cb, a, b, st, table)
             ELSE [st |-> st, data |-> NoSpan, calls |-> <<>>],
             st)
    ELSE Leaf_inform(node, cb, a, b, st, table)

RECURSIVE MaxLevelHintOp(_)
MaxLevelHintOp(node) ==
    CASE node.kind = "Filtered" -> Filtered_max_level_hint(node)
      [] node.kind = "Plain" -> node.hint
      [] node.kind = "Registry" -> NoHint
      [] node.kind = "Option" ->
            Option_max_level_hint(
                node,
                IF node.some # <<>> THEN MaxLevelHintOp(node.some[1]) ELSE NoHint)
      [] node.kind = "Layered" ->
            IF node.impl = "Subscriber"
            THEN Layered_Subscriber_max_level_hint(
                     node, MaxLevelHintOp(node.layer), MaxLevelHintOp(node.inner))
            ELSE Layered_Layer_max_level_hint(
                     node, MaxLevelHintOp(node.layer), MaxLevelHintOp(node.inner))

(*************************** the subscribers checked ***********************)
\* register_callsite closure of a filter or layer that is static for level
\* 1, dynamic for level 2 and not interested in anything more verbose
InterestByLevel ==
    [m \in Metadata |-> IF m = 1 THEN ALWAYS
                        ELSE IF m = 2 THEN SOMETIMES ELSE NEVER]

\* a dynamic filter that accepts level 1 only
FilterA == FilterFn_with_callsite_filter(FilterFn_new({1}), InterestByLevel)

\* a dynamic filter that accepts levels 1 and 2
FilterB == FilterFn_with_callsite_filter(FilterFn_new({1, 2}), InterestByLevel)

\* a layer with a global (not per-layer) dynamic filter accepting level 1
PlainA(k) == Plain(k, InterestByLevel, {1}, NoHint)

\* Layered(Filtered(L1, A), registry)
Shape1 == with_subscriber(Filtered_new(1, FilterA), Registry_new)

\* Layered(Filtered(L2, B), Layered(Filtered(L1, A), registry))
Shape2 == with_subscriber(Filtered_new(2, FilterB), Shape1)

\* Layered(Filtered(L1, A), Layered(Filtered(L2, B), Layered(P3, registry)))
Shape3 ==
    with_subscriber(Filtered_new(1, FilterA),
                    with_subscriber(Filtered_new(2, FilterB),
                                    with_subscriber(PlainA(3), Registry_new)))

\* Layered(P2, Layered(Filtered(L1, B), registry))
Shape4 ==
    with_subscriber(PlainA(2),
                    with_subscriber(Filtered_new(1, FilterB), Registry_new))

\* Layered(Layered(Filtered(L2, B), Filtered(L1, A)), registry)
Shape5 ==
    with_subscriber(and_then(Filtered_new(1, FilterA),
                             Filtered_new(2, FilterB), "Registry"),
                    Registry_new)

\* Layered(Layered(Filtered(L1, A), P2), registry)
Shape6 ==
    with_subscriber(and_then(PlainA(2), Filtered_new(1, FilterA), "Registry"),
                    Registry_new)

\* Layered(Filtered(L1, LevelFilter 2), registry)
Shape7 == with_subscriber(Filtered_new(1, LevelFilter(2)), Registry_new)

\* Layered(None, Layered(Some(P2), Layered(Filtered(L1, B), registry)))
Shape8 ==
    with_subscriber(OptionNone,
                    with_subscriber(OptionSome(PlainA(2)),
                                    with_subscriber(Filtered_new(1, FilterB),
                                                    Registry_new)))

\* Layered(Layered(P3, P2), Layered(Filtered(L1, A), registry))
Shape9 ==
    with_subscriber(and_then(PlainA(2), PlainA(3), "Layered"), Shape1)

Shapes ==
    {Shape1, Shape2, Shape3, Shape4, Shape5, Shape6, Shape7, Shape8, Shape9}

(*************************** the producer **********************************)
NoLast ==
    [op |-> "none", thread |-> 0, arg |-> 0, meta |-> 0, pass |-> FALSE,
     interest |-> NoInterest, enabled |-> FALSE, hint |-> NoHint,
     calls |-> <<>>, follows |-> 0]

NoSelf ==
    [impl |-> "Subscriber", has_layer_filter |-> FALSE,
     inner_has_layer_filter |-> FALSE, inner_is_registry |-> FALSE]

NoPure ==
    [fn |-> "none", self |-> NoSelf, outer |-> ALWAYS, inner |-> ALWAYS,
     outer_hint |-> NoHint, inner_hint |-> NoHint, done |-> FALSE,
     ret |-> NoInterest, hint |-> NoHint, calls |-> <<>>,
     outer_layer |-> [kind |-> "Option", some |-> <<>>],
     inner_enabled |-> FALSE, enabled |-> FALSE,
     filtered |-> [kind |-> "Option", some |-> <<>>], meta |-> 0,
     before |-> [enabled |-> {}, interest |-> "none"],
     after |-> [enabled |-> {}, interest |-> "none"],
     debug_assertions |-> FALSE, panicked |-> FALSE,
     id |-> 0, value |-> FALSE, twice |-> {}, restored |-> {},
     any_enabled |-> FALSE, all_disabled |-> FALSE]

Init ==
    /\ sub \in Shapes
    /\ threads = {1}
    /\ filtering = [t \in threads |-> FilterState_new(FALSE)]
    /\ cache = [m \in Metadata |-> "unregistered"]
    /\ pending = [t \in threads |-> NoPending]
    /\ spans = [id \in SpanIds |-> NoSpan]
    /\ last = NoLast
    /\ pure = NoPure

CountersInBounds(st) ==
    /\ st.in_current_filter_pass <= MaxCounter
    /\ st.in_current_interest_pass <= MaxCounter

\* the callsite registers itself (first use, or the cache was rebuilt)
\* a FILTERING that is one static shared by all threads
FILTERING_shared(t) == 1

\* thread_local! { static FILTERING }: the FilterState a thread reaches
\* through FILTERING.with is its own
FILTERING(t) == t

RegisterCallsite(t, m) ==
    /\ pending[t] = NoPending
    /\ LET r == RegisterCallsiteOp(sub, m, filtering[FILTERING(t)])
       IN  /\ CountersInBounds(r.st)
           /\ filtering' = [filtering EXCEPT ![FILTERING(t)] = r.st]
           /\ cache' = [cache EXCEPT ![m] = r.ret]
           /\ last' = [NoLast EXCEPT !.op = "register_callsite", !.thread = t,
                          !.arg = m, !.interest = r.ret, !.calls = r.calls]
    /\ UNCHANGED <<sub, threads, pending, spans, pure>>

\* the `enabled` pass of a span or event whose cached interest is sometimes
Enabled(t, m) ==
    /\ pending[t] = NoPending
    /\ cache[m] = SOMETIMES
    /\ LET r == EnabledOp(sub, m, filtering[FILTERING(t)])
       IN  /\ CountersInBounds(r.st)
           /\ filtering' = [filtering EXCEPT ![FILTERING(t)] = r.st]
           /\ pending' = [pending EXCEPT ![t] = IF r.ret THEN m ELSE NoPending]
           /\ last' = [NoLast EXCEPT !.op = "enabled", !.thread = t,
                          !.arg = m, !.enabled = r.ret, !.calls = r.calls]
    /\ UNCHANGED <<sub, threads, cache, spans, pure>>

\* the producer may dispatch m: its pass returned true, or its cached
\* interest is always and no pass is made
MayDispatch(t, m) ==
    \/ pending[t] = m
    \/ pending[t] = NoPending /\ cache[m] = ALWAYS

Event(t, m) ==
    /\ MayDispatch(t, m)
    /\ LET r == InformOp(sub, "on_event", m, 0, filtering[FILTERING(t)], spans)
       IN  /\ filtering' = [filtering EXCEPT ![FILTERING(t)] = r.st]
           /\ last' = [NoLast EXCEPT !.op = "event", !.thread = t, !.arg = m,
                          !.meta = m, !.pass = (pending[t] = m),
                          !.calls = r.calls]
    /\ pending' = [pending EXCEPT ![t] = NoPending]
    /\ UNCHANGED <<sub, threads, cache, spans, pure>>

\* the span ids not in use; the registry hands out the least of them
FreeIds == {id \in SpanIds : ~spans[id].live}

LeastFree(id) == id \in FreeIds /\ \A other \in FreeIds : id <= other

NewSpan(t, m, id) ==
    /\ MayDispatch(t, m)
    /\ LeastFree(id)
    /\ LET r == InformOp(sub, "new_span", m, id, filtering[FILTERING(t)], spans)
       IN  /\ filtering' = [filtering EXCEPT ![FILTERING(t)] = r.st]
           /\ spans' = [spans EXCEPT
                           ![id] = [r.data EXCEPT !.pass = (pending[t] = m)]]
           /\ last' = [NoLast EXCEPT !.op = "new_span", !.thread = t, !.arg = id,
                          !.meta = m, !.pass = (pending[t] = m),
                          !.calls = r.calls]
    /\ pending' = [pending EXCEPT ![t] = NoPending]
    /\ UNCHANGED <<sub, threads, cache, pure>>

\* record, enter and exit of a live span
SpanOp(t, op, cb, id) ==
    /\ pending[t] = NoPending
    /\ spans[id].live
    /\ LET r == InformOp(sub, cb, id, 0, filtering[FILTERING(t)], spans)
       IN  last' = [NoLast EXCEPT !.op = op, !.thread = t, !.arg = id,
                       !.meta = spans[id].meta, !.pass = spans[id].pass,
                       !.calls = r.calls]
    /\ UNCHANGED <<sub, threads, filtering, cache, pending, spans, pure>>

Record(t, id) == SpanOp(t, "record", "on_record", id)

Enter(t, id) == SpanOp(t, "enter", "on_enter", id)

Exit(t, id) == SpanOp(t, "exit", "on_exit", id)

RecordFollowsFrom(t, id, follows) ==
    /\ pending[t] = NoPending
    /\ spans[id].live /\ spans[follows].live
    /\ LET r == InformOp(sub, "on_follows_from", id, follows, filtering[FILTERING(t)], spans)
       IN  last' = [NoLast EXCEPT !.op = "record_follows_from", !.thread = t,
                       !.arg = id, !.follows = follows,
                       !.meta = spans[id].meta,
                       !.pass = spans[id].pass, !.calls = r.calls]
    /\ UNCHANGED <<sub, threads, filtering, cache, pending, spans, pure>>

\* Layered::clone_span: the terminal subscriber returns the same id (the
\* registry does) or a new id for the same span; on_id_change is passed on
\* only in the second case
CloneSpan(t, old, new) ==
    /\ pending[t] = NoPending
    /\ spans[old].live
    /\ new = old \/ LeastFree(new)
    /\ LET r == InformOp(sub, "on_id_change", old, new, filtering[FILTERING(t)], spans)
       IN  last' = [NoLast EXCEPT !.op = "clone_span", !.thread = t,
                       !.arg = old, !.meta = spans[old].meta,
                       !.pass = spans[old].pass, !.enabled = (new # old),
                       !.calls = IF new # old THEN r.calls
                                 ELSE Registry_callback(sub, "clone_span", old)]
    /\ spans' = [spans EXCEPT ![new] = spans[old]]
    /\ UNCHANGED <<sub, threads, filtering, cache, pending, pure>>

\* Layered::try_close: on_close is passed on when the terminal subscriber
\* reports that the span closed
TryClose(t, id, closing) ==
    /\ pending[t] = NoPending
    /\ spans[id].live
    /\ LET r == InformOp(sub, "on_close", id, 0, filtering[FILTERING(t)], spans)
       IN  last' = [NoLast EXCEPT !.op = "try_close", !.thread = t, !.arg = id,
                       !.meta = spans[id].meta, !.pass = spans[id].pass,
                       !.enabled = closing,
                       !.calls = IF closing THEN r.calls
                                 ELSE Registry_callback(sub, "on_close", id)]
    /\ spans' = IF closing THEN [spans EXCEPT ![id] = NoSpan] ELSE spans
    /\ UNCHANGED <<sub, threads, filtering, cache, pending, pure>>

MaxLevelHint ==
    /\ last' = [NoLast EXCEPT !.op = "max_level_hint",
                   !.hint = MaxLevelHintOp(sub)]
    /\ UNCHANGED <<sub, threads, filtering, cache, pending, spans, pure>>

Next ==
    \/ \E t \in threads, m \in Metadata : RegisterCallsite(t, m)
    \/ \E t \in threads, m \in Metadata : Enabled(t, m)
    \/ \E t \in threads, m \in Metadata : Event(t, m)
    \/ \E t \in threads, m \in Metadata, id \in SpanIds : NewSpan(t, m, id)
    \/ \E t \in threads, id \in SpanIds : Record(t, id)
    \/ \E t \in threads, id \in SpanIds : Enter(t, id)
    \/ \E t \in threads, id \in SpanIds : Exit(t, id)
    \/ \E t \in threads, id \in SpanIds, f \in SpanIds : RecordFollowsFrom(t, id, f)
    \/ \E t \in threads, id \in SpanIds, new \in SpanIds : CloneSpan(t, id, new)
    \/ \E t \in threads, id \in SpanIds, c \in BOOLEAN : TryClose(t, id, c)
    \/ MaxLevelHint

Spec == Init /\ [][Next]_vars

(*************************** one Layered, called directly ******************)
\* The fields Layered::new can leave in a Layered: it sets
\* inner_has_layer_filter whenever inner_is_registry.
LayeredFlags ==
    {f \in [impl : {"Subscriber", "Layer"}, has_layer_filter : BOOLEAN,
            inner_has_layer_filter : BOOLEAN, inner_is_registry : BOOLEAN] :
        f.inner_is_registry => f.inner_has_layer_filter}

\* the outer layers whose `enabled` a Layered is given: a layer that
\* accepts the metadata, one that rejects it, and Option<L> of both kinds
PureOuterLayers ==
    {Plain(1, InterestByLevel, {1}, NoHint),
     Plain(1, InterestByLevel, {}, NoHint),
     OptionNone,
     OptionSome(Plain(1, InterestByLevel, {1}, NoHint)),
     OptionSome(Plain(1, InterestByLevel, {}, NoHint))}

\* the Filtered layers called directly: the first, second and last
\* FilterId and the unregistered one, with each of the filters
PureFilterIds == {0, 1, FilterBits - 1, Unregistered}

PureFiltered ==
    {[Filtered_new(1, filter) EXCEPT !.id = id] :
        filter \in {FilterA, FilterB, LevelFilter(2)}, id \in PureFilterIds}

\* the thread-local FilterMaps such a call starts from
PureFilterMaps == SUBSET (PureFilterIds \ {Unregistered})

\* the maps with every bit set, and with every bit but one set
PureFullMaps ==
    {0..(FilterBits - 1)}
        \cup {(0..(FilterBits - 1)) \ {id} : id \in PureFilterIds}

\* the thread-local FilterState holding the map and the interest cell of
\* pure.before
PureFilterState ==
    [FilterState_new(FALSE) EXCEPT !.enabled = pure.before.enabled,
                                   !.interest = pure.before.interest]

\* the filters called directly: every LevelFilter, and a FilterFn around
\* every predicate, with and without a hint and a callsite filter
PureFilters ==
    {LevelFilter(l) : l \in LevelFilters}
        \cup {FilterFn_new(e) : e \in SUBSET Levels}
        \cup {FilterFn_with_max_level_hint(FilterFn_new(e), l) :
                e \in SUBSET Levels, l \in LevelFilters}
        \cup {FilterFn_with_callsite_filter(
                  FilterFn_with_max_level_hint(FilterFn_new(e), l),
                  InterestByLevel) :
                e \in SUBSET Levels, l \in LevelFilters}

PureInit ==
    /\ sub = Shape1
    /\ threads = {1}
    /\ filtering = [t \in threads |-> FilterState_new(FALSE)]
    /\ cache = [m \in Metadata |-> "unregistered"]
    /\ pending = [t \in threads |-> NoPending]
    /\ spans = [id \in SpanIds |-> NoSpan]
    /\ last = NoLast
    /\ \/ \E f \in LayeredFlags, o \in Interests, i \in Interests :
              pure = [NoPure EXCEPT !.fn = "register_callsite", !.self = f,
                         !.outer = o, !.inner = i]
       \/ \E f \in LayeredFlags, o \in Hints, i \in Hints :
              pure = [NoPure EXCEPT !.fn = "max_level_hint", !.self = f,
                         !.outer_hint = o, !.inner_hint = i]
       \/ \E f \in LayeredFlags, o \in PureOuterLayers, i \in BOOLEAN :
              pure = [NoPure EXCEPT !.fn = "enabled", !.self = f,
                         !.outer_layer = o, !.inner_enabled = i]
       \/ \E f \in PureFiltered, m \in Metadata, i \in Interests \cup {NoInterest} :
              pure = [NoPure EXCEPT
                         !.fn = "Filtered::register_callsite",
                         !.filtered = f, !.meta = m,
                         !.before = [enabled |-> FilterMap_default,
                                     interest |-> i]]
       \/ \E map \in PureFilterMaps \cup PureFullMaps, id \in PureFilterIds,
             v \in BOOLEAN :
              pure = [NoPure EXCEPT
                         !.fn = "FilterMap::set", !.id = id, !.value = v,
                         !.before = [enabled |-> map, interest |-> NoInterest]]
       \/ \E map \in PureFilterMaps \cup PureFullMaps, id \in PureFilterIds :
              pure = [NoPure EXCEPT
                         !.fn = "FilterState::did_enable", !.id = id,
                         !.before = [enabled |-> map, interest |-> NoInterest]]
       \/ \E f \in PureFilters, m \in Metadata, d \in BOOLEAN :
              pure = [NoPure EXCEPT
                         !.fn = "Filter::enabled",
                         !.filtered = Filtered_new(1, f), !.meta = m,
                         !.debug_assertions = d]
       \/ \E f \in PureFiltered, m \in Metadata, map \in PureFilterMaps :
              pure = [NoPure EXCEPT
                         !.fn = "Filtered::enabled",
                         !.filtered = f, !.meta = m,
                         !.before = [enabled |-> map,
                                     interest |-> NoInterest]]

\* what the outer layer and the inner collaborator of pure.self do when
\* their register_callsite is invoked
PureOuter ==
    [ret |-> pure.outer, st |-> filtering[1],
     calls |-> <<Call("outer", 0, "register_callsite", 0)>>]

PureInner ==
    [ret |-> pure.inner, st |-> filtering[1],
     calls |-> <<Call("inner", 0, "register_callsite", 0)>>]

CallRegisterCallsite ==
    /\ pure.fn = "register_callsite" /\ ~pure.done
    /\ LET r == IF pure.self.impl = "Subscriber"
                THEN Layered_Subscriber_register_callsite(pure.self, PureOuter, PureInner)
                ELSE Layered_Layer_register_callsite(pure.self, PureOuter, PureInner)
       IN  pure' = [pure EXCEPT !.done = TRUE, !.ret = r.ret, !.calls = r.calls]
    /\ UNCHANGED <<sub, threads, filtering, cache, pending, spans, last>>

CallMaxLevelHint ==
    /\ pure.fn = "max_level_hint" /\ ~pure.done
    /\ LET h == IF pure.self.impl = "Subscriber"
                THEN Layered_Subscriber_max_level_hint(
                         pure.self, pure.outer_hint, pure.inner_hint)
                ELSE Layered_Layer_max_level_hint(
                         pure.self, pure.outer_hint, pure.inner_hint)
       IN  pure' = [pure EXCEPT !.done = TRUE, !.hint = h]
    /\ UNCHANGED <<sub, threads, filtering, cache, pending, spans, last>>

\* what the inner collaborator of pure.self does when its `enabled` is
\* invoked
PureInnerEnabled ==
    [ret |-> pure.inner_enabled, st |-> filtering[1],
     calls |-> <<Call("inner", 0, "enabled", 1)>>]

CallEnabled ==
    /\ pure.fn = "enabled" /\ ~pure.done
    /\ LET o == EnabledOp(pure.outer_layer, 1, filtering[1])
           r == IF pure.self.impl = "Subscriber"
                THEN Layered_Subscriber_enabled(pure.self, o, PureInnerEnabled)
                ELSE Layered_Layer_enabled(pure.self, o, PureInnerEnabled)
       IN  pure' = [pure EXCEPT !.done = TRUE, !.enabled = r.ret,
                                !.calls = r.calls]
    /\ UNCHANGED <<sub, threads, filtering, cache, pending, spans, last>>

CallFilteredRegisterCallsite ==
    /\ pure.fn = "Filtered::register_callsite" /\ ~pure.done
    /\ LET r == Filtered_register_callsite(pure.filtered, pure.meta,
                                           PureFilterState)
       IN  pure' = [pure EXCEPT
                       !.done = TRUE, !.ret = r.ret,
                       !.after = [enabled |-> r.st.enabled,
                                  interest |-> r.st.interest]]
    /\ UNCHANGED <<sub, threads, filtering, cache, pending, spans, last>>

CallFilteredEnabled ==
    /\ pure.fn = "Filtered::enabled" /\ ~pure.done
    /\ LET r == Filtered_enabled(pure.filtered, pure.meta, PureFilterState)
       IN  pure' = [pure EXCEPT
                       !.done = TRUE, !.enabled = r.ret,
                       !.after = [enabled |-> r.st.enabled,
                                  interest |-> r.st.interest]]
    /\ UNCHANGED <<sub, threads, filtering, cache, pending, spans, last>>

\* Filter::enabled and Filter::callsite_enabled of the filter of
\* pure.filtered; with debug assertions a failing debug_assert! of FilterFn
\* panics and nothing is returned
CallFilter ==
    /\ pure.fn = "Filter::enabled" /\ ~pure.done
    /\ LET f == pure.filtered.filter
           ok == \/ f.kind # "FilterFn"
                 \/ /\ FilterFn_enabled_debug_assert(f, pure.meta)
                    /\ FilterFn_callsite_enabled_debug_assert(f, pure.meta)
       IN  IF pure.debug_assertions /\ ~ok
           THEN pure' = [pure EXCEPT !.done = TRUE, !.panicked = TRUE]
           ELSE pure' = [pure EXCEPT
                            !.done = TRUE,
                            !.enabled = Filter_enabled(f, pure.meta),
                            !.ret = Filter_callsite_enabled(f, pure.meta),
                            !.hint = Filter_max_level_hint(f)]
    /\ UNCHANGED <<sub, threads, filtering, cache, pending, spans, last>>

\* FilterMap::set applied once, twice, and as set(false) then set(true);
\* any_enabled and all_disabled of the result
CallFilterMap ==
    /\ pure.fn = "FilterMap::set" /\ ~pure.done
    /\ LET map == pure.before.enabled
           once == FilterMap_set(map, pure.id, pure.value)
       IN  pure' = [pure EXCEPT
                       !.done = TRUE,
                       !.after = [enabled |-> once, interest |-> NoInterest],
                       !.twice = FilterMap_set(once, pure.id, pure.value),
                       !.restored =
                           FilterMap_set(FilterMap_set(map, pure.id, FALSE),
                                         pure.id, TRUE),
                       !.enabled = FilterMap_is_enabled(once, pure.id),
                       !.any_enabled = FilterMap_any_enabled(once),
                       !.all_disabled = FilterMap_all_disabled(once)]
    /\ UNCHANGED <<sub, threads, filtering, cache, pending, spans, last>>

\* FilterState::did_enable(id, f): `enabled` records whether f was invoked
CallDidEnable ==
    /\ pure.fn = "FilterState::did_enable" /\ ~pure.done
    /\ LET r == FilterState_did_enable(PureFilterState, pure.id)
       IN  pure' = [pure EXCEPT
                       !.done = TRUE, !.enabled = r.called,
                       !.after = [enabled |-> r.st.enabled,
                                  interest |-> r.st.interest]]
    /\ UNCHANGED <<sub, threads, filtering, cache, pending, spans, last>>

PureNext ==
    \/ CallDidEnable
    \/ CallFilterMap
    \/ CallFilter
    \/ CallRegisterCallsite
    \/ CallMaxLevelHint
    \/ CallEnabled
    \/ CallFilteredRegisterCallsite
    \/ CallFilteredEnabled

SpecPure == PureInit /\ [][PureNext]_vars

(*************************** two producer threads ***************************)
\* the subscribers the two threads share
ThreadShapes == {Shape2}

ThreadsInit ==
    /\ sub \in ThreadShapes
    /\ threads = {1, 2}
    /\ filtering = [t \in threads |-> FilterState_new(FALSE)]
    /\ cache = [m \in Metadata |-> "unregistered"]
    /\ pending = [t \in threads |-> NoPending]
    /\ spans = [id \in SpanIds |-> NoSpan]
    /\ last = NoLast
    /\ pure = NoPure

SpecThreads == ThreadsInit /\ [][Next]_vars

(*************************** the interest cell ******************************)
\* `added` are the interests added since the cell was last taken, `taken`
\* is <<>> or the result of the take_interest that was the last call, and
\* `before` the interests that had been added when it was called
NoCell ==
    [fn |-> "cell", st |-> FilterState_new(FALSE), added |-> <<>>,
     taken |-> <<>>, before |-> <<>>]

CellInit ==
    /\ sub = Shape1
    /\ threads = {1}
    /\ filtering = [t \in threads |-> FilterState_new(FALSE)]
    /\ cache = [m \in Metadata |-> "unregistered"]
    /\ pending = [t \in threads |-> NoPending]
    /\ spans = [id \in SpanIds |-> NoSpan]
    /\ last = NoLast
    /\ \E d \in BOOLEAN : pure = [NoCell EXCEPT !.st = FilterState_new(d)]

AddInterest(interest) ==
    /\ Len(pure.added) < MaxAdds
    /\ pure' = [pure EXCEPT
                   !.st = FilterState_add_interest(pure.st, interest),
                   !.added = Append(pure.added, interest),
                   !.taken = <<>>,
                   !.before = <<>>]
    /\ UNCHANGED <<sub, threads, filtering, cache, pending, spans, last>>

TakeInterest ==
    /\ LET r == FilterState_take_interest(pure.st)
       IN  pure' = [pure EXCEPT
                       !.st = r.st,
                       !.added = <<>>,
                       !.taken = <<r.ret>>,
                       !.before = pure.added]
    /\ UNCHANGED <<sub, threads, filtering, cache, pending, spans, last>>

CellNext ==
    \/ \E interest \in Interests : AddInterest(interest)
    \/ TakeInterest

SpecCell == CellInit /\ [][CellNext]_vars

(*************************** a build with debug assertions ******************)
\* the subscribers driven in a build with debug_assertions
DebugShapes == {Shape1, Shape2, Shape3, Shape4}

DebugInit ==
    /\ sub \in DebugShapes
    /\ threads = {1}
    /\ filtering = [t \in threads |-> FilterState_new(TRUE)]
    /\ cache = [m \in Metadata |-> "unregistered"]
    /\ pending = [t \in threads |-> NoPending]
    /\ spans = [id \in SpanIds |-> NoSpan]
    /\ last = NoLast
    /\ pure = NoPure

SpecDebug == DebugInit /\ [][Next]_vars

(*************************** assembling, step by step ***********************)
\* The layers a tree is built from; k names the position of the leaf.
LayerLeaves(k) ==
    {Filtered_new(k, FilterA), PlainA(k), OptionNone,
     OptionSome(Filtered_new(k, FilterA))}

\* two leaves composed with and_then, for a subscriber of type S
LayerPairs(k, S) ==
    {and_then(i, o, S) : i \in LayerLeaves(k), o \in LayerLeaves(k + 1)}

\* the layer trees considered: leaves, pairs, and a pair under or over a leaf
LayerTrees(S) ==
    LayerLeaves(1) \cup LayerPairs(1, S)
        \cup {and_then(i, o, S) : i \in LayerLeaves(1), o \in LayerPairs(2, S)}
        \cup {and_then(i, o, S) : i \in LayerPairs(1, S), o \in LayerLeaves(3)}

\* the number of Filtered layers stacked on the registry so far
RECURSIVE Depth(_)
Depth(subscriber) ==
    IF subscriber.kind = "Layered" THEN 1 + Depth(subscriber.inner) ELSE 0

NoBuild ==
    [fn |-> "build", S |-> "Registry", tree |-> OptionNone,
     base |-> Registry_new, stage |-> "new", built |-> OptionNone,
     panicked |-> FALSE, asked |-> "none", plf |-> FALSE, hint |-> NoHint]

BuildInit ==
    /\ sub = Shape1
    /\ threads = {1}
    /\ filtering = [t \in threads |-> FilterState_new(FALSE)]
    /\ cache = [m \in Metadata |-> "unregistered"]
    /\ pending = [t \in threads |-> NoPending]
    /\ spans = [id \in SpanIds |-> NoSpan]
    /\ last = NoLast
    /\ \E S \in {"Registry", "Layered"} :
          \E tree \in LayerTrees(S) :
              pure = [NoBuild EXCEPT !.S = S, !.tree = tree]

\* base.with(Filtered): one more Filtered layer goes on the stack the tree
\* will be attached to; the one after the last FilterId panics
Push ==
    /\ pure.stage = "new" /\ pure.asked = "none"
    /\ pure.S = "Layered"
    /\ Depth(pure.base) <= FilterBits
    /\ LET f == Filtered_new(100 + Depth(pure.base), FilterA)
       IN  IF with_subscriber_panics(f, pure.base)
           THEN pure' = [pure EXCEPT !.stage = "attached", !.panicked = TRUE,
                                     !.tree = f]
           ELSE pure' = [pure EXCEPT !.base = with_subscriber(f, pure.base)]
    /\ UNCHANGED <<sub, threads, filtering, cache, pending, spans, last>>

\* layer_has_plf(&tree): the layer tree is asked for the marker
DowncastLayer ==
    /\ pure.stage = "new" /\ pure.asked = "none"
    /\ pure' = [pure EXCEPT !.asked = "layer", !.plf = layer_has_plf(pure.tree)]
    /\ UNCHANGED <<sub, threads, filtering, cache, pending, spans, last>>

\* base.with(tree)
Attach ==
    /\ pure.stage = "new"
    /\ (pure.S = "Registry") = (pure.base.kind = "Registry")
    /\ pure' = [pure EXCEPT
                   !.stage = "attached",
                   !.asked = "none",
                   !.panicked = with_subscriber_panics(pure.tree, pure.base),
                   !.built = IF with_subscriber_panics(pure.tree, pure.base)
                             THEN OptionNone
                             ELSE with_subscriber(pure.tree, pure.base)]
    /\ UNCHANGED <<sub, threads, filtering, cache, pending, spans, last>>

\* subscriber_has_plf(&built): the assembled subscriber is asked
DowncastSubscriber ==
    /\ pure.stage = "attached" /\ ~pure.panicked /\ pure.asked = "none"
    /\ pure' = [pure EXCEPT !.asked = "subscriber",
                               !.plf = subscriber_has_plf(pure.built)]
    /\ UNCHANGED <<sub, threads, filtering, cache, pending, spans, last>>

BuildNext == Push \/ DowncastLayer \/ Attach \/ DowncastSubscriber

SpecBuild == BuildInit /\ [][BuildNext]_vars

(*************************** hints of assembled trees ***********************)
\* Filtered layers whose filter is a LevelFilter, and so has a hint it obeys
HintLeaves(k) == {Filtered_new(k, LevelFilter(l)) : l \in LevelFilters}

HintPairs(k, S) ==
    {and_then(i, o, S) : i \in HintLeaves(k), o \in HintLeaves(k + 1)}

\* the layer trees considered: a leaf, a pair, a pair under or over a leaf
HintTrees(S) ==
    HintLeaves(1) \cup HintPairs(1, S)
        \cup {and_then(i, o, S) : i \in HintLeaves(1), o \in HintPairs(2, S)}
        \cup {and_then(i, o, S) : i \in HintPairs(1, S), o \in HintLeaves(3)}

\* what a tree is attached to: the bare registry, or a registry that
\* already carries one Filtered
HintBases(S) ==
    IF S = "Registry" THEN {Registry_new}
    ELSE {with_subscriber(f, Registry_new) : f \in HintLeaves(100)}

HintInit ==
    /\ sub = Shape1
    /\ threads = {1}
    /\ filtering = [t \in threads |-> FilterState_new(FALSE)]
    /\ cache = [m \in Metadata |-> "unregistered"]
    /\ pending = [t \in threads |-> NoPending]
    /\ spans = [id \in SpanIds |-> NoSpan]
    /\ last = NoLast
    /\ \E S \in {"Registry", "Layered"} :
          \E tree \in HintTrees(S), base \in HintBases(S) :
              pure = [NoBuild EXCEPT !.S = S, !.tree = tree, !.base = base]

\* base.with(tree)
HintAttach ==
    /\ pure.stage = "new"
    /\ pure' = [pure EXCEPT !.stage = "attached",
                            !.built = with_subscriber(pure.tree, pure.base)]
    /\ UNCHANGED <<sub, threads, filtering, cache, pending, spans, last>>

\* Subscriber::max_level_hint of the assembled subscriber
HintCall ==
    /\ pure.stage = "attached" /\ pure.asked = "none"
    /\ pure' = [pure EXCEPT !.asked = "max_level_hint",
                            !.hint = MaxLevelHintOp(pure.built)]
    /\ UNCHANGED <<sub, threads, filtering, cache, pending, spans, last>>

HintNext == HintAttach \/ HintCall

SpecHint == HintInit /\ [][HintNext]_vars

(*************************** properties ************************************)
\* the registered Filtered layers of the subscriber
RegisteredFilters == {f \in FilteredLeaves(sub) : f.id < FilterBits}

\* the wrapped layer of the Filtered f received callback cb in the last operation
Forwarded(f, cb) ==
    \E n \in 1..Len(last.calls) :
        /\ last.calls[n][1] = "layer"
        /\ last.calls[n][2] = f.k
        /\ last.calls[n][3] = cb

\* the last operation asked the registry for its verdict
RegistryAsked(cb) ==
    \E n \in 1..Len(last.calls) :
        last.calls[n][1] = "registry" /\ last.calls[n][3] = cb

\* C1: whenever the producer dispatches an event, a registered Filtered
\* layer passes on_event on to its wrapped layer if and only if its own
\* filter enables the event, whatever happened before on the thread.
C1_EventIsolation ==
    last.op = "event" =>
        \A f \in RegisteredFilters :
            Forwarded(f, "on_event") <=> Filter_enabled(f.filter, last.meta)

\* the callback a span operation passes to the layers
SpanCallbackOf(op) ==
    CASE op = "record" -> "on_record"
      [] op = "enter" -> "on_enter"
      [] op = "exit" -> "on_exit"
      [] op = "try_close" -> "on_close"
      [] op = "clone_span" -> "on_id_change"
      [] OTHER -> "none"

\* the last operation delivered a span callback to the layers, for a span
\* that was admitted by an `enabled` pass
SpanCallbackDelivered ==
    /\ last.op \in {"record", "enter", "exit", "try_close", "clone_span"}
    /\ last.op \in {"try_close", "clone_span"} => last.enabled
    /\ last.pass

\* C2: every on_record, on_enter, on_exit, on_close and on_id_change of a
\* span admitted by an `enabled` pass is passed on by a registered Filtered
\* layer if and only if its filter voted enabled in that pass.
C2_SpanIsolation ==
    SpanCallbackDelivered =>
        \A f \in RegisteredFilters :
            Forwarded(f, SpanCallbackOf(last.op))
                <=> Filter_enabled(f.filter, last.meta)

\* C2 witness: a span that one filter enabled and another disabled was
\* entered; the first filter's layer saw on_enter, the second's did not.
C2_Witness ==
    /\ SpanCallbackDelivered
    /\ last.op = "enter"
    /\ \E f1 \in RegisteredFilters, f2 \in RegisteredFilters :
          /\ Filter_enabled(f1.filter, last.meta)
          /\ ~Filter_enabled(f2.filter, last.meta)
          /\ Forwarded(f1, "on_enter")
          /\ ~Forwarded(f2, "on_enter")

\* C3: when every per-layer filter of the subscriber voted disabled in an
\* `enabled` pass that reached the registry, event_enabled() returns false
\* and the pass fails, so that the event is dropped.
C3_AllDisabledDropsEvent ==
    (/\ last.op = "enabled"
     /\ RegistryAsked("enabled")
     /\ \A f \in RegisteredFilters : ~Filter_enabled(f.filter, last.arg))
        => ~last.enabled

\* C4: between filter passes (no dispatch is owed by the thread) the
\* thread-local FilterMap is the default.
C4_FilterMapDefaultBetweenPasses ==
    \A t \in threads :
        pending[t] = NoPending => filtering[t].enabled = FilterMap_default

\* C5: after every register_callsite of the subscriber the thread-local
\* interest cell is empty.
C5_InterestCellEmptyBetweenPasses ==
    \A t \in threads : filtering[t].interest = NoInterest

\* the table of C6, read top to bottom
InterestTable(o, i, has_layer_filter, inner_has_layer_filter) ==
    IF has_layer_filter THEN i
    ELSE IF o = NEVER THEN NEVER
    ELSE IF o = SOMETIMES THEN SOMETIMES
    ELSE IF i = NEVER /\ inner_has_layer_filter THEN SOMETIMES
    ELSE i

PureCalled(fn) == pure.fn = fn /\ pure.done

\* C6: Layered::register_callsite returns the value of the table for every
\* outer interest, inner interest and pair of flags, and the Subscriber and
\* the Layer implementation agree.
C6_InterestTable ==
    PureCalled("register_callsite") =>
        /\ pure.ret = InterestTable(pure.outer, pure.inner,
                                    pure.self.has_layer_filter,
                                    pure.self.inner_has_layer_filter)
        /\ Layered_Subscriber_register_callsite(pure.self, PureOuter, PureInner).ret
              = Layered_Layer_register_callsite(pure.self, PureOuter, PureInner).ret

\* C6 witness: the outer has a per-layer filter and returned never, the
\* inner returned always, and the Layered returned always.
C6_Witness ==
    /\ PureCalled("register_callsite")
    /\ pure.self.has_layer_filter
    /\ pure.outer = NEVER /\ pure.inner = ALWAYS
    /\ pure.ret = ALWAYS

CallsTo(who) ==
    Cardinality({n \in 1..Len(pure.calls) : pure.calls[n][1] = who})

\* C7: the outer's register_callsite is invoked first and once; the inner's
\* is invoked exactly once, except that it is not invoked at all when the
\* outer has no per-layer filter and returns never.
C7_InnerInformed ==
    PureCalled("register_callsite") =>
        /\ Len(pure.calls) >= 1
        /\ pure.calls[1][1] = "outer"
        /\ CallsTo("outer") = 1
        /\ CallsTo("inner") =
              IF ~pure.self.has_layer_filter /\ pure.outer = NEVER THEN 0 ELSE 1

\* C7 witness: the outer has no per-layer filter and returned sometimes,
\* and the inner was still asked, after the outer.
C7_Witness ==
    /\ PureCalled("register_callsite")
    /\ ~pure.self.has_layer_filter
    /\ pure.outer = SOMETIMES
    /\ Len(pure.calls) = 2
    /\ pure.calls[1][1] = "outer" /\ pure.calls[2][1] = "inner"

\* C8: when inner_is_registry holds, max_level_hint() returns the outer
\* layer's hint unchanged, whatever the inner hint is.
C8_RegistryPassesOuterHint ==
    (PureCalled("max_level_hint") /\ pure.self.inner_is_registry)
        => pure.hint = pure.outer_hint

\* C8 witness: over the registry an outer hint of level 2 came through
\* although the inner hint was another one.
C8_Witness ==
    /\ PureCalled("max_level_hint")
    /\ pure.self.inner_is_registry
    /\ pure.outer_hint = SomeHint(2)
    /\ pure.inner_hint # pure.outer_hint
    /\ pure.hint = SomeHint(2)

MostVerbose(a, b) == IF a >= b THEN a ELSE b

\* C9: when the inner is not the registry: with a per-layer filter in both
\* branches the hint is Some(max) if both hints are present and None if one
\* is missing; with one only in the outer and no inner hint it is None;
\* with one only in the inner and no outer hint it is None.
C9_PlfHints ==
    (PureCalled("max_level_hint") /\ ~pure.self.inner_is_registry) =>
        /\ (pure.self.has_layer_filter /\ pure.self.inner_has_layer_filter) =>
              pure.hint =
                  IF pure.outer_hint = NoHint \/ pure.inner_hint = NoHint
                  THEN NoHint
                  ELSE SomeHint(MostVerbose(pure.outer_hint[1], pure.inner_hint[1]))
        /\ (/\ pure.self.has_layer_filter
            /\ ~pure.self.inner_has_layer_filter
            /\ pure.inner_hint = NoHint) => pure.hint = NoHint
        /\ (/\ ~pure.self.has_layer_filter
            /\ pure.self.inner_has_layer_filter
            /\ pure.outer_hint = NoHint) => pure.hint = NoHint

\* C9 witness: both branches have a per-layer filter, the outer has a hint
\* and the inner has none, and the combined hint is None.
C9_Witness ==
    /\ PureCalled("max_level_hint")
    /\ ~pure.self.inner_is_registry
    /\ pure.self.has_layer_filter /\ pure.self.inner_has_layer_filter
    /\ pure.outer_hint = SomeHint(1) /\ pure.inner_hint = NoHint
    /\ pure.hint = NoHint

\* the case none of the earlier rules of pick_level_hint decides
RemainingHintCase ==
    /\ PureCalled("max_level_hint")
    /\ ~pure.self.inner_is_registry
    /\ ~(pure.self.has_layer_filter /\ pure.self.inner_has_layer_filter)
    /\ ~(pure.self.has_layer_filter /\ pure.inner_hint = NoHint)
    /\ ~(pure.self.inner_has_layer_filter /\ pure.outer_hint = NoHint)

\* C10 as claimed: in the remaining case the hint is the most verbose of
\* the two hints when both are present and None when either is missing.
C10_NoneDominates ==
    RemainingHintCase =>
        pure.hint =
            IF pure.outer_hint = NoHint \/ pure.inner_hint = NoHint THEN NoHint
            ELSE SomeHint(MostVerbose(pure.outer_hint[1], pure.inner_hint[1]))

\* C10 amended: in the remaining case the hint is the most verbose of the
\* two hints when both are present; when exactly one is missing it is the
\* other one, and it is None only when both are missing.
C10_SomeDominates ==
    RemainingHintCase =>
        pure.hint =
            IF pure.outer_hint = NoHint THEN pure.inner_hint
            ELSE IF pure.inner_hint = NoHint THEN pure.outer_hint
            ELSE SomeHint(MostVerbose(pure.outer_hint[1], pure.inner_hint[1]))

\* C10 witness: neither branch has a per-layer filter, the outer has no
\* hint, the inner has one, and the inner's hint is the result.
C10_Witness ==
    /\ RemainingHintCase
    /\ ~pure.self.has_layer_filter /\ ~pure.self.inner_has_layer_filter
    /\ pure.outer_hint = NoHint /\ pure.inner_hint = SomeHint(2)
    /\ pure.hint = SomeHint(2)

\* the layers at the leaves of a tree; the registry a subscriber ends in is
\* not one of them
LayerLeavesOf(node) == {l \in Leaves(node) : l.kind # "Registry"}

EveryLeafFiltered(node) == \A l \in LayerLeavesOf(node) : l.kind = "Filtered"

\* C11: a tree asked to downcast to the per-layer-filter marker answers
\* non-null exactly when every one of its layer leaves is a Filtered,
\* whether the tree is a layer or a subscriber.
C11_DowncastIsConjunction ==
    /\ pure.asked = "layer" => pure.plf = EveryLeafFiltered(pure.tree)
    /\ pure.asked = "subscriber" => pure.plf = EveryLeafFiltered(pure.built)

\* C11 witness: a layer tree with one plain leaf answered null, and a
\* subscriber whose layers are all Filtered answered non-null.
C11_Witness ==
    \/ /\ pure.asked = "layer" /\ pure.tree.kind = "Layered"
       /\ \E l \in Leaves(pure.tree) : l.kind = "Plain"
       /\ \E l \in Leaves(pure.tree) : l.kind = "Filtered"
       /\ ~pure.plf
    \/ /\ pure.asked = "subscriber" /\ Depth(pure.built) > 1
       /\ EveryLeafFiltered(pure.built) /\ pure.plf

\* every Layered that exists while a subscriber is assembled
AssembledLayered ==
    LayeredNodes(pure.tree) \cup LayeredNodes(pure.base)
        \cup LayeredNodes(pure.built)

\* the mixed tree Layered(Filtered(L1, F1), plain L2)
Mixed(node) ==
    /\ node.kind = "Layered"
    /\ node.layer.kind = "Filtered"
    /\ node.inner.kind = "Plain"

\* C12: a further Layered composed with the mixed tree treats it as not
\* per-layer filtered: has_layer_filter is false when the tree is its
\* outer, inner_has_layer_filter is false when the tree is its inner, and
\* an inner never under an outer always then yields never.
C12_MixedTreeIsNotPlf ==
    \A n \in AssembledLayered :
        /\ Mixed(n.layer) => ~n.has_layer_filter
        /\ Mixed(n.inner) =>
              /\ ~n.inner_has_layer_filter
              /\ ~n.has_layer_filter =>
                    pick_interest(n, ALWAYS, NEVER).ret = NEVER

\* C12 witness: the mixed tree is the inner of a further Layered whose
\* outer is a plain layer, in a subscriber that has been assembled.
C12_Witness ==
    /\ pure.stage = "attached" /\ ~pure.panicked
    /\ \E n \in LayeredNodes(pure.built) :
          Mixed(n.inner) /\ n.layer.kind = "Plain"

\* C13: inner_is_registry is true exactly when the inner collaborator is
\* the registry itself, and inner_has_layer_filter is the constructor's
\* argument or inner_is_registry.
C13_InnerIsRegistry ==
    \A n \in AssembledLayered :
        /\ n.inner_is_registry = (n.inner.kind = "Registry")
        /\ n.inner_has_layer_filter
              = (downcast_raw_plf(n.inner) \/ n.inner_is_registry)

\* C13 witness: a Layered whose inner is the registry, and a layer tree
\* whose inner is another layer.
C13_Witness ==
    /\ \E n \in AssembledLayered : n.inner.kind = "Registry"
    /\ \E n \in AssembledLayered : n.inner.kind = "Plain"

\* the leaves of a tree in the order in which the claimed rule reaches
\* them: at every Layered the inner branch first, the outer layer second
RECURSIVE InnerFirst(_)
InnerFirst(node) ==
    IF node.kind = "Layered"
    THEN InnerFirst(node.inner) \o InnerFirst(node.layer)
    ELSE IF node.kind = "Option"
    THEN IF node.some # <<>> THEN InnerFirst(node.some[1]) ELSE <<>>
    ELSE IF node.kind = "Registry" THEN << <<"registry", 0>> >>
    ELSE << <<"layer", node.k>> >>

\* the place of a call's receiver in that order
PlaceOf(call) ==
    CHOOSE n \in 1..Len(InnerFirst(sub)) :
        InnerFirst(sub)[n] = <<call[1], call[2]>>

\* the last operation passed an informational callback down the tree
Informational ==
    \/ last.op \in {"new_span", "event", "record", "enter", "exit",
                    "record_follows_from"}
    \/ last.op \in {"try_close", "clone_span"} /\ last.enabled

\* C14: for every informational callback the terminal subscriber is called
\* first and every layer is called before the layers stacked above it: the
\* calls of one operation follow the inner-first order of the tree.
C14_InnerFirst ==
    Informational =>
        /\ last.calls # <<>> /\ last.calls[1][1] = "registry"
        /\ \A i, j \in 1..Len(last.calls) :
              i < j => PlaceOf(last.calls[i]) < PlaceOf(last.calls[j])

\* C14 witness: an operation reached the registry, a layer of a Layered
\* that is a subscriber, and both layers of a Layered that is a layer.
C14_Witness ==
    /\ Informational
    /\ sub = Shape9
    /\ Len(last.calls) = 4

\* the answer of the outer layer given to Layered::enabled: whether the
\* layer accepts the metadata, an absent layer counting as true
OuterAccepts ==
    IF pure.outer_layer.kind = "Option"
    THEN pure.outer_layer.some = <<>> \/ 1 \in pure.outer_layer.some[1].enabled
    ELSE 1 \in pure.outer_layer.enabled

\* the inner collaborator's `enabled` was invoked by the call
InnerAsked ==
    \E n \in 1..Len(pure.calls) : pure.calls[n][1] = "inner"

\* C15: Layered::enabled is the outer's answer AND the inner's; the inner
\* is asked exactly when the outer accepted, and after the outer; an
\* absent outer counts as accepting.
C15_EnabledIsConjunction ==
    PureCalled("enabled") =>
        /\ pure.enabled = (OuterAccepts /\ pure.inner_enabled)
        /\ InnerAsked = OuterAccepts
        /\ InnerAsked => pure.calls[Len(pure.calls)][1] = "inner"

\* C15 witness: the outer layer rejected, the inner would have accepted,
\* and the inner was not asked.
C15_Witness ==
    /\ PureCalled("enabled")
    /\ pure.outer_layer.kind = "Plain" /\ ~OuterAccepts
    /\ pure.inner_enabled /\ ~pure.enabled /\ ~InnerAsked

\* the filter of Filtered f enabled the span: f is registered and its bit
\* is clear in the FilterMap stored with the span
SpanEnabledFor(id, f) ==
    /\ spans[id].live
    /\ f.id < FilterBits
    /\ f.id \notin spans[id].filter_map

\* C16: a Filtered forwards on_follows_from(span, follows) to its wrapped
\* layer if and only if its filter enabled both spans.
C16_FollowsFromNeedsBoth ==
    last.op = "record_follows_from" =>
        \A f \in FilteredLeaves(sub) :
            Forwarded(f, "on_follows_from")
                <=> SpanEnabledFor(last.arg, f) /\ SpanEnabledFor(last.follows, f)

\* C16 witness: the subject span is enabled for a Filtered, the span it
\* follows from is not, and the callback is suppressed at that Filtered
\* while another Filtered of the same subscriber forwards it.
C16_Witness ==
    /\ last.op = "record_follows_from"
    /\ \E f \in FilteredLeaves(sub) :
          /\ SpanEnabledFor(last.arg, f) /\ ~SpanEnabledFor(last.follows, f)
          /\ ~Forwarded(f, "on_follows_from")
    /\ \E f \in FilteredLeaves(sub) : Forwarded(f, "on_follows_from")

\* a subscriber has been assembled
Assembled == pure.stage = "attached" /\ ~pure.panicked

\* C17: after assembly every Filtered of the subscriber holds an id in
\* 0..63 that no other Filtered of the subscriber holds; none keeps 255.
C17_EveryFilteredRegistered ==
    Assembled =>
        \A f \in FilteredLeaves(pure.built) :
            /\ f.id \in 0..(FilterBits - 1)
            /\ \A g \in FilteredLeaves(pure.built) : g # f => g.id # f.id

\* C17 witness: a Filtered attached directly on top of two others got a
\* fresh id.
C17_Witness ==
    /\ Assembled
    /\ pure.tree.kind = "Filtered" /\ Depth(pure.base) = 2
    /\ pure.built.layer.id = 2
    /\ \A f \in FilteredLeaves(pure.built) :
          \A g \in FilteredLeaves(pure.built) : g # f => g.id # f.id

\* the FilterIds held by the Filtered layers of a tree, 255 left out
RegisteredIds(node) ==
    {f.id : f \in {g \in FilteredLeaves(node) : g.id # Unregistered}}

\* C18: the first 64 Filtered layers attached to a subscriber get the ids
\* 0 to 63 and attaching a 65th panics; no registered id lies outside
\* 0..63.
C18_SixtyFourFilterIds ==
    /\ RegisteredIds(pure.base) = 0..(Depth(pure.base) - 1)
    /\ RegisteredIds(pure.base) \subseteq 0..(FilterBits - 1)
    /\ pure.stage = "attached" /\ pure.tree.kind = "Filtered" =>
          /\ pure.panicked = (Depth(pure.base) >= FilterBits)
          /\ ~pure.panicked =>
                /\ pure.built.layer.id = Depth(pure.base)
                /\ RegisteredIds(pure.built) = 0..Depth(pure.base)
                /\ RegisteredIds(pure.built) \subseteq 0..(FilterBits - 1)

\* C18 witness: 64 Filtered layers hold the ids 0 to 63 and attaching one
\* more panicked.
C18_Witness ==
    /\ pure.stage = "attached" /\ pure.tree.kind = "Filtered"
    /\ RegisteredIds(pure.base) = 0..(FilterBits - 1)
    /\ pure.panicked

\* the Filtered layers of the subscriber that were never registered
UnregisteredFilters == {f \in FilteredLeaves(sub) : f.id = Unregistered}

\* the last operation called the wrapped layer of the Filtered f
ForwardedAny(f) ==
    \E n \in 1..Len(last.calls) :
        last.calls[n][1] = "layer" /\ last.calls[n][2] = f.k

\* C19: a Filtered that still holds the id 255 never forwards new_span,
\* on_event or a span callback to its wrapped layer, and its `enabled`
\* writes nothing: no thread's FilterMap ever holds the id, and where no
\* Filtered is registered every FilterMap stays at its default.
C19_UnregisteredIsInert ==
    /\ \A f \in UnregisteredFilters : ~ForwardedAny(f)
    /\ \A t \in threads : Unregistered \notin filtering[t].enabled
    /\ UnregisteredFilters = FilteredLeaves(sub) =>
          \A t \in threads : filtering[t].enabled = FilterMap_default

\* C19 witness: an event that the filter of an unregistered Filtered
\* accepts was dispatched, reached another layer, and was not forwarded by
\* the Filtered.
C19_Witness ==
    /\ last.op = "event" /\ Len(last.calls) > 1
    /\ \E f \in UnregisteredFilters :
          Filter_enabled(f.filter, last.meta) /\ ~ForwardedAny(f)

\* the interest the cell holds after `interest` was added to `before`
Added(before, interest) ==
    IF before = NoInterest \/ before = interest THEN interest ELSE SOMETIMES

\* C20: Filtered::register_callsite returns always whatever its filter
\* answers and adds the filter's interest to the thread-local cell;
\* Filtered::enabled returns true whatever its filter answers and changes
\* only the bit of its own FilterId, set when the filter rejects and clear
\* when it accepts.
C20_FilteredNeverShortCircuits ==
    /\ PureCalled("Filtered::register_callsite") =>
          /\ pure.ret = ALWAYS
          /\ pure.after.interest =
                Added(pure.before.interest,
                      Filter_callsite_enabled(pure.filtered.filter, pure.meta))
          /\ pure.after.enabled = pure.before.enabled
    /\ PureCalled("Filtered::enabled") =>
          /\ pure.enabled
          /\ pure.after.enabled \ {pure.filtered.id}
                = pure.before.enabled \ {pure.filtered.id}
          /\ pure.filtered.id < FilterBits =>
                (pure.filtered.id \in pure.after.enabled)
                    = ~Filter_enabled(pure.filtered.filter, pure.meta)
          /\ pure.after.interest = pure.before.interest

\* C20 witness: the filter rejected the metadata, Filtered::enabled
\* returned true and set its own bit next to another Filtered's bit.
C20_Witness ==
    /\ PureCalled("Filtered::enabled")
    /\ ~Filter_enabled(pure.filtered.filter, pure.meta)
    /\ pure.enabled
    /\ pure.filtered.id = 1
    /\ pure.before.enabled = {0}
    /\ pure.after.enabled = {0, 1}

\* the metadata is more verbose than the hint of the filter called
AboveHint ==
    /\ Filter_max_level_hint(pure.filtered.filter) # NoHint
    /\ pure.meta > Filter_max_level_hint(pure.filtered.filter)[1]

\* C21: a filter whose max_level_hint is Some(L) returns false from
\* `enabled` and never from `callsite_enabled` for every metadata more
\* verbose than L, be it a LevelFilter or a FilterFn with a hint.
C21_FilterObeysItsHint ==
    PureCalled("Filter::enabled") /\ AboveHint =>
        /\ ~pure.panicked
        /\ ~pure.enabled
        /\ pure.ret = NEVER

\* C21 witness: a LevelFilter was asked about metadata more verbose than
\* its level and answered false and never.
C21_Witness ==
    /\ PureCalled("Filter::enabled") /\ AboveHint
    /\ pure.filtered.filter.kind = "LevelFilter"
    /\ ~pure.enabled /\ pure.ret = NEVER

\* C22: in every step of two threads sharing a subscriber, the FilterState
\* of a thread other than the acting one is unchanged, a Filtered forwards
\* an event exactly when its bit was clear in the acting thread's own
\* FilterMap, and after the acting thread's own `enabled` pass that is
\* exactly when its filter enables the event, whatever the other thread
\* did in between.
C22_ThreadLocal ==
    [][ /\ \A t \in threads :
              t # last'.thread => filtering'[t] = filtering[t]
        /\ last'.op = "event" =>
              \A f \in RegisteredFilters :
                  /\ Forwarded(f, "on_event")'
                        <=> f.id \notin filtering[last'.thread].enabled
                  /\ last'.pass =>
                        (Forwarded(f, "on_event")'
                            <=> Filter_enabled(f.filter, last'.meta))
      ]_vars

\* C22 witness: thread 1 dispatched an event after its own pass while
\* thread 2 holds different bits and still owes a dispatch, and one
\* Filtered forwarded the event while another did not.
C22_Witness ==
    /\ last.op = "event" /\ last.thread = 1 /\ last.pass
    /\ pending[2] # NoPending
    /\ filtering[2].enabled # filtering[1].enabled
    /\ \E f \in RegisteredFilters : Forwarded(f, "on_event")
    /\ \E f \in RegisteredFilters : ~Forwarded(f, "on_event")

\* the ids a FilterMap has a bit for
BitIds == 0..(FilterBits - 1)

\* C23: FilterMap behaves as a set of 64 bits: every id is enabled in the
\* default map; after set(id, v) with id < 64 is_enabled(id) is v and every
\* other bit is unchanged; set is idempotent; set(true) after set(false)
\* leaves the bit clear; ids from 64 on read as disabled and writing them
\* changes nothing; any_enabled holds unless all 64 bits are set, and
\* all_disabled is its negation.
C23_FilterMapIsABitset ==
    PureCalled("FilterMap::set") =>
        /\ \A j \in BitIds : FilterMap_is_enabled(FilterMap_default, j)
        /\ pure.id \in BitIds =>
              /\ pure.enabled = pure.value
              /\ (pure.id \in pure.after.enabled) = ~pure.value
              /\ pure.id \notin pure.restored
        /\ pure.id \notin BitIds =>
              /\ ~pure.enabled
              /\ pure.after.enabled = pure.before.enabled
        /\ \A j \in BitIds \ {pure.id} :
              /\ (j \in pure.after.enabled) = (j \in pure.before.enabled)
              /\ (j \in pure.restored) = (j \in pure.before.enabled)
              /\ FilterMap_is_enabled(pure.after.enabled, j)
                    = (j \notin pure.before.enabled)
        /\ pure.twice = pure.after.enabled
        /\ pure.any_enabled = (\E j \in BitIds : j \notin pure.after.enabled)
        /\ pure.all_disabled = ~pure.any_enabled

\* C23 witness: setting the last bit missing from a map disabled every
\* id.
C23_Witness ==
    /\ PureCalled("FilterMap::set")
    /\ pure.id = FilterBits - 1 /\ ~pure.value
    /\ pure.before.enabled = BitIds \ {pure.id}
    /\ pure.all_disabled /\ ~pure.any_enabled /\ ~pure.enabled

\* the interest a cell holds after the interests of a non-empty sequence
\* were added to an empty cell: the common one, or sometimes
Combined(seq) ==
    IF \A n \in 1..Len(seq) : seq[n] = seq[1] THEN seq[1] ELSE SOMETIMES

\* C24: after any non-empty sequence of add_interest calls on an empty
\* cell the cell holds the common value if all added interests are equal
\* and sometimes otherwise; in particular the order of the calls does not
\* matter, an equal value changes nothing and sometimes stays sometimes.
C24_CellCombines ==
    /\ pure.added # <<>> => pure.st.interest = Combined(pure.added)
    /\ pure.added = <<>> => pure.st.interest = NoInterest

\* C24 witness: always, always and then never were added and the cell
\* holds sometimes.
C24_Witness ==
    /\ pure.added = <<ALWAYS, ALWAYS, NEVER>>
    /\ pure.st.interest = SOMETIMES

\* C25: take_interest returns what was accumulated since the last take and
\* leaves the cell empty; with nothing added since, it returns None.
C25_TakeEmptiesCell ==
    pure.taken # <<>> =>
        /\ pure.st.interest = NoInterest
        /\ pure.taken[1] =
              IF pure.before = <<>> THEN NoInterest ELSE Combined(pure.before)

\* C25 witness: a take_interest that was called right after another one,
\* in a build with debug assertions, returned None without a failing
\* assertion.
C25_Witness ==
    /\ pure.taken = <<NoInterest>> /\ pure.before = <<>>
    /\ pure.st.debug_assertions /\ ~pure.st.debug_assert_failed

\* C26: did_enable(id, f) invokes f exactly when bit id was clear before
\* the call, leaves bit id clear in both cases and changes no other bit;
\* for the unregistered id it neither invokes f nor changes the map.
C26_DidEnableInspectsAndResets ==
    PureCalled("FilterState::did_enable") =>
        /\ pure.id \in BitIds =>
              /\ pure.enabled = (pure.id \notin pure.before.enabled)
              /\ pure.id \notin pure.after.enabled
        /\ pure.id \notin BitIds =>
              ~pure.enabled /\ pure.after.enabled = pure.before.enabled
        /\ \A j \in BitIds \ {pure.id} :
              (j \in pure.after.enabled) = (j \in pure.before.enabled)
        /\ pure.after.interest = pure.before.interest

\* C26 witness: bit 1 was set next to bit 0; f was not invoked, bit 1 is
\* clear after the call and bit 0 is still set.
C26_Witness ==
    /\ PureCalled("FilterState::did_enable")
    /\ pure.id = 1 /\ pure.before.enabled = {0, 1}
    /\ ~pure.enabled /\ pure.after.enabled = {0}

\* C27: in a build with debug assertions no debug assertion of
\* FilterState fails, whatever the producer registers, asks and
\* dispatches on a thread.
C27_NoDebugAssertionFails ==
    \A t \in threads : ~filtering[t].debug_assert_failed

\* C27 witness: in a build with debug assertions an enabled pass returned
\* true, its event was dispatched and forwarded, and the counters are back
\* at 0 with no assertion failed.
C27_Witness ==
    /\ last.op = "event" /\ last.pass
    /\ \E f \in RegisteredFilters : Forwarded(f, "on_event")
    /\ filtering[1].debug_assertions
    /\ filtering[1].in_current_filter_pass = 0
    /\ filtering[1].in_current_interest_pass = 0
    /\ ~filtering[1].debug_assert_failed

\* the plain layers of the subscriber
PlainLeaves == {n \in Leaves(sub) : n.kind = "Plain"}

\* C28: new_span returns the id of the span the registry made; the
\* registry is called first and stores the thread's FilterMap as it was
\* before the call; every layer is then given new_span with that id (a
\* Filtered passes it on exactly when its bit is clear in the stored map).
C28_NewSpanIdFromRegistry ==
    [][ last'.op = "new_span" =>
          /\ last'.calls[1] = Call("registry", 0, "new_span", last'.arg)
          /\ \A n \in 1..Len(last'.calls) :
                last'.calls[n][3] = "new_span"
                    /\ last'.calls[n][4] = last'.arg
          /\ ~spans[last'.arg].live /\ spans'[last'.arg].live
          /\ spans'[last'.arg].filter_map
                = filtering[last'.thread].enabled
          /\ \A p \in PlainLeaves : ForwardedAny(p)'
          /\ \A f \in FilteredLeaves(sub) :
                ForwardedAny(f)'
                    <=> /\ f.id \in BitIds
                        /\ f.id \notin spans'[last'.arg].filter_map
      ]_vars

\* C28 witness: a span was made after a pass in which one Filtered
\* disabled it: the stored map holds that bit, another Filtered was given
\* new_span, and the thread's map is back at the default.
C28_Witness ==
    /\ last.op = "new_span" /\ last.pass
    /\ spans[last.arg].filter_map # FilterMap_default
    /\ \E f \in RegisteredFilters : ForwardedAny(f)
    /\ \E f \in RegisteredFilters : ~ForwardedAny(f)
    /\ filtering[last.thread].enabled = FilterMap_default

\* C29: when the assembled subscriber's max_level_hint is Some(L), no
\* Filtered leaf of it has a filter that enables metadata more verbose
\* than L.
C29_HintCoversEveryFilter ==
    pure.asked = "max_level_hint" /\ pure.hint # NoHint =>
        \A f \in FilteredLeaves(pure.built) :
            \A m \in Metadata :
                m > pure.hint[1] => ~Filter_enabled(f.filter, m)

\* C29 witness: a pair of Filtered layers attached on top of a subscriber
\* that is not the bare registry, with three different hints; the
\* combined hint is the most verbose of them.
C29_Witness ==
    /\ pure.asked = "max_level_hint" /\ pure.S = "Layered"
    /\ pure.tree.kind = "Layered"
    /\ pure.tree.layer.kind = "Filtered" /\ pure.tree.inner.kind = "Filtered"
    /\ pure.tree.layer.filter.level = 1
    /\ pure.tree.inner.filter.level = 3
    /\ pure.base.layer.filter.level = 2
    /\ pure.hint = SomeHint(3)

====
